---- MODULE Spec2Model ----
(***************************************************************************)
(* Backtesting engine of the trading-algo repository: the simulated broker *)
(* (Backtester.place_order, _update_portfolio_value), the simulation       *)
(* driver (Backtester.run), the reporting step                             *)
(* (generate_performance_report) and the backtest variant of the Survivor  *)
(* strategy (SurvivorBacktestStrategy).                                    *)
(*                                                                         *)
(* Prices and quantities are integers (a DataFrame of integer prices; the  *)
(* arithmetic of the code is +, -, * only, which is exact on them).        *)
(* A DataFrame row is [index, price]; positions is the dict                *)
(* symbol -> {'quantity': n}, a function on the set of its keys.           *)
(***************************************************************************)
EXTENDS Integers, Sequences, FiniteSets, TLC

(* ------------------------------ bounds -------------------------------- *)

\* Longest feed (rows of self.data) explored.
MaxTicks == 2

\* Most place_order calls made by a caller other than the Survivor strategy.
MaxOrders == 2

\* Longest feed explored in a run of the Survivor strategy alone.
MaxRunTicks == 3

\* Most _find_nifty_symbol_from_gap calls made from outside on_ticks_update.
MaxLookups == 2

\* Longest feed explored when get_quote and _update_portfolio_value are also
\* called directly.
MaxFrameTicks == 1

\* Most run() calls explored on one Backtester.
MaxRuns == 2

\* Reference prices of the direct _update_portfolio_value calls (the run
\* itself marks at the prices of the feed).
MarkPrices == {20}

\* Tick prices explored when the tick handler may raise: as in a run, and a
\* non-positive price.
ErrorFeedPrices == {24500, 24525, 24475, 0}

\* Keys left out of the config the strategy is built from, one at a time.
MissingKeys == {"symbol_initials", "pe_gap", "ce_quantity", "trans_type"}

\* Arguments of those calls.
LookupTypes == {"CE", "PE"}
LookupLtps == {24500, 24650, 150}
LookupGaps == {200, 50}

\* initial_capital values explored (100000 is the default of __init__).
InitialCapitals == {100000, 50000}

\* Tick prices explored in a run of the Survivor strategy alone: the starting
\* reference, moves below both gaps, moves of exactly the gap up and down,
\* and a move beyond the gap.
FeedPrices == {24500, 24510, 24490, 24525, 24475, 24550}

\* Tick prices and capital explored when other callers trade as well: the
\* starting reference and a move of the gap.
CallerFeedPrices == {24500, 24525}
CallerCapitals == {100000}

\* (quantity, price) pairs a caller passes to place_order: well-formed,
\* and malformed (a non-positive quantity, a non-positive price).
OrderInputs == {<<50, 20>>, <<25, 30>>, <<-50, 20>>, <<50, 0>>}

TransactionTypes == {"BUY", "SELL"}

(* ------------------- SurvivorBacktestStrategy helpers ------------------ *)

\* str() of one decimal digit.
Digit(d) ==
    CASE d = 0 -> "0" [] d = 1 -> "1" [] d = 2 -> "2" [] d = 3 -> "3"
      [] d = 4 -> "4" [] d = 5 -> "5" [] d = 6 -> "6" [] d = 7 -> "7"
      [] d = 8 -> "8" [] d = 9 -> "9"

RECURSIVE NatStr(_)
\* Decimal text of a natural number, most significant digit first.
NatStr(n) == IF n < 10 THEN Digit(n) ELSE NatStr(n \div 10) \o Digit(n % 10)

\* format(n) of a Python int inside an f-string.
IntStr(n) == IF n < 0 THEN "-" \o NatStr(0 - n) ELSE NatStr(n)

\* target_strike with the sides of the gap exchanged.
target_strike_sides_swapped(option_type, ltp, gap) ==
    ltp + (IF option_type = "PE" THEN gap ELSE 0 - gap)

\* target_strike of _find_nifty_symbol_from_gap.
target_strike(option_type, ltp, gap) ==
    ltp + (IF option_type = "CE" THEN gap ELSE 0 - gap)

\* 'tradingsymbol' of the instrument: f'NIFTY{option_type}{target_strike}'.
tradingsymbol(option_type, strike) == "NIFTY" \o option_type \o IntStr(strike)

\* The dict _find_nifty_symbol_from_gap returns.
find_nifty_symbol_from_gap(option_type, ltp, gap) ==
    [tradingsymbol |-> tradingsymbol(option_type, target_strike(option_type, ltp, gap)),
     strike |-> target_strike(option_type, ltp, gap)]

\* _get_default_config with the transaction type BUY.
get_default_config_buy ==
    [symbol_initials |-> "NIFTY25JAN30",
     pe_gap |-> 25, ce_gap |-> 25,
     pe_symbol_gap |-> 200, ce_symbol_gap |-> 200,
     pe_reset_gap |-> 50, ce_reset_gap |-> 50,
     pe_quantity |-> 50, ce_quantity |-> 50,
     order_type |-> "MARKET", trans_type |-> "BUY"]

\* Backtester._get_default_config (the keys the model reads).
get_default_config ==
    [symbol_initials |-> "NIFTY25JAN30",
     pe_gap |-> 25, ce_gap |-> 25,
     pe_symbol_gap |-> 200, ce_symbol_gap |-> 200,
     pe_reset_gap |-> 50, ce_reset_gap |-> 50,
     pe_quantity |-> 50, ce_quantity |-> 50,
     order_type |-> "MARKET", trans_type |-> "SELL"]

\* The starting reference price _initialize_state assigns to both legs.
StartReference == 24500

\* The fill price _place_order passes to the broker.
FixedFillPrice == 20

\* The order id place_order returns.
DummyOrderId == 1

\* The last_price of every quote.
QuotePrice == 20

\* Symbols a caller other than the Survivor strategy trades: the symbol of
\* the worked example, and one the Survivor strategy also trades.
OrderSymbols ==
    {"NIFTY-CE-24525",
     find_nifty_symbol_from_gap("CE", 24525, get_default_config.ce_symbol_gap).tradingsymbol}

(* ------------------------------- state -------------------------------- *)

VARIABLES
    data,             \* self.data: the rows [index, price] of the feed
    initial_capital,  \* self.initial_capital
    cash,             \* self.cash
    positions,        \* self.positions
    portfolio_value,  \* self.portfolio_value
    history,          \* self.history
    strategy,         \* <<>> before run() builds it, then <<its attributes>>
    pc,               \* where the driver stands
    i,                \* the row run() is at (1..Len(data))
    order_log,        \* one record per place_order call: what logger.info
                      \* writes and what the call returns, with the cash
                      \* and positions the call found
    calls,            \* place_order calls made so far by other callers than
                      \* the Survivor strategy
    report,           \* <<>>, or <<outcome of generate_performance_report>>
    lookup,           \* the _find_nifty_symbol_from_gap calls made from
                      \* outside on_ticks_update: arguments and result
    quote,            \* <<>>, or <<what the last get_quote call returned>>
    cfg,              \* the config mapping the strategy is built from
    exception         \* <<>>, or <<the exception that ended run()>>

vars == <<data, initial_capital, cash, positions, portfolio_value, history,
          strategy, pc, i, order_log, calls, report, lookup, quote, cfg,
          exception>>

(* --------------------------- Backtester: broker ------------------------ *)

\* The dict positions with positions[symbol] = {'quantity': quantity}.
SetQuantity(pos, symbol, quantity) ==
    [s \in DOMAIN pos \cup {symbol} |->
        IF s = symbol THEN [quantity |-> quantity] ELSE pos[s]]

\* place_order with the BUY branch crediting the cash like the SELL branch.
place_order_cash_buy_credits(c, quantity, price, transaction_type) ==
    IF transaction_type = "SELL" THEN c + quantity * price
    ELSE IF transaction_type = "BUY" THEN c + quantity * price
    ELSE c

\* self.cash after place_order.
place_order_cash(c, quantity, price, transaction_type) ==
    IF transaction_type = "SELL" THEN c + quantity * price
    ELSE IF transaction_type = "BUY" THEN c - quantity * price
    ELSE c

\* place_order deleting the entry of a symbol whose quantity reaches 0.
place_order_positions_drop_flat(pos, symbol, quantity, transaction_type) ==
    LET delta == IF transaction_type = "SELL" THEN 0 - quantity
                 ELSE IF transaction_type = "BUY" THEN quantity ELSE 0
        old == IF symbol \in DOMAIN pos THEN pos[symbol].quantity ELSE 0
    IN  IF transaction_type \notin {"SELL", "BUY"} THEN pos
        ELSE IF old + delta = 0
        THEN [s \in DOMAIN pos \ {symbol} |-> pos[s]]
        ELSE SetQuantity(pos, symbol, old + delta)

\* self.positions after place_order.
place_order_positions(pos, symbol, quantity, transaction_type) ==
    IF transaction_type = "SELL" THEN
        IF symbol \in DOMAIN pos
        THEN SetQuantity(pos, symbol, pos[symbol].quantity - quantity)
        ELSE SetQuantity(pos, symbol, 0 - quantity)
    ELSE IF transaction_type = "BUY" THEN
        IF symbol \in DOMAIN pos
        THEN SetQuantity(pos, symbol, pos[symbol].quantity + quantity)
        ELSE SetQuantity(pos, symbol, quantity)
    ELSE pos

\* place_order returning the number of the call.
place_order_return_counter(log) == Len(log) + 1

\* What place_order returns.
place_order_return(log) == DummyOrderId

\* Backtester.place_order on the broker b = [cash, positions, order_log, row]
\* (row: the row run() is at when the call is made, 0 outside a run).
place_order(b, symbol, quantity, price, transaction_type, order_type) ==
    [cash |-> place_order_cash(b.cash, quantity, price, transaction_type),
     positions |-> place_order_positions(b.positions, symbol, quantity, transaction_type),
     order_log |-> Append(b.order_log,
        [transaction_type |-> transaction_type, quantity |-> quantity,
         symbol |-> symbol, price |-> price,
         order_id |-> place_order_return(b.order_log), row |-> b.row,
         cash_before |-> b.cash, positions_before |-> b.positions])]

RECURSIVE positions_value(_, _, _)
\* The loop of _update_portfolio_value over the symbols in keys.
positions_value(pos, keys, current_price) ==
    IF keys = {} THEN 0
    ELSE LET symbol == CHOOSE s \in keys : TRUE
         IN  pos[symbol].quantity * current_price
             + positions_value(pos, keys \ {symbol}, current_price)

\* _update_portfolio_value adding the quantities unpriced.
update_portfolio_value_unpriced(c, pos, current_price) ==
    c + positions_value(pos, DOMAIN pos, 1)

\* self.portfolio_value after _update_portfolio_value(current_price).
update_portfolio_value(c, pos, current_price) ==
    c + positions_value(pos, DOMAIN pos, current_price)

\* What get_quote(symbol) returns: {symbol: {'last_price': 20}}.
get_quote(symbol) == [s \in {symbol} |-> [last_price |-> QuotePrice]]

\* generate_performance_report without its guard on an empty history.
generate_performance_report_unguarded(hist, pv, capital) ==
    [returns |-> "DataFrame", rows |-> hist,
     printed |-> <<[initial_capital |-> capital,
                    final_portfolio_value |-> pv,
                    total_return_num |-> (pv - capital) * 100,
                    total_return_den |-> capital]>>]

\* generate_performance_report printing the value of the first history entry
\* as the final value.
generate_performance_report_first_entry(hist, pv, capital) ==
    IF hist = <<>>
    THEN [returns |-> "None", rows |-> <<>>, printed |-> <<>>]
    ELSE [returns |-> "DataFrame", rows |-> hist,
          printed |-> <<[initial_capital |-> capital,
                         final_portfolio_value |-> hist[1].portfolio_value,
                         total_return_num
                            |-> (hist[1].portfolio_value - capital) * 100,
                         total_return_den |-> capital]>>]

\* What generate_performance_report returns and prints: None and no figure
\* for an empty history, else the DataFrame of the history with the final
\* value and the total return (pv / initial_capital - 1) * 100, kept as the
\* exact fraction total_return_num / total_return_den.
generate_performance_report(hist, pv, capital) ==
    IF hist = <<>>
    THEN [returns |-> "None", rows |-> <<>>, printed |-> <<>>]
    ELSE [returns |-> "DataFrame", rows |-> hist,
          printed |-> <<[initial_capital |-> capital,
                         final_portfolio_value |-> pv,
                         total_return_num |-> (pv - capital) * 100,
                         total_return_den |-> capital]>>]

(* ---------------------- SurvivorBacktestStrategy ----------------------- *)

\* _initialize_state starting both legs at the first price of DataManager.
initialize_state_feed_start(config) ==
    [strat_var |-> config,
     pe_reset_gap_flag |-> 0, ce_reset_gap_flag |-> 0,
     nifty_pe_last_value |-> 24000,
     nifty_ce_last_value |-> 24000]

\* _initialize_state leaving both legs waiting for a reset.
initialize_state_flags_set(config) ==
    [strat_var |-> config,
     pe_reset_gap_flag |-> 1, ce_reset_gap_flag |-> 1,
     nifty_pe_last_value |-> StartReference,
     nifty_ce_last_value |-> StartReference]

\* The attributes __init__ and _initialize_state leave on the strategy.
initialize_state(config) ==
    [strat_var |-> config,
     pe_reset_gap_flag |-> 0, ce_reset_gap_flag |-> 0,
     nifty_pe_last_value |-> StartReference,
     nifty_ce_last_value |-> StartReference]

\* _place_order passing the price of a quote moved off the fixed fill price.
strategy_place_order_moved_price(st, b, symbol, quantity) ==
    place_order(b, symbol, quantity, FixedFillPrice + 5,
                st.strat_var.trans_type, st.strat_var.order_type)

\* SurvivorBacktestStrategy._place_order on the broker b.
strategy_place_order(st, b, symbol, quantity) ==
    place_order(b, symbol, quantity, FixedFillPrice,
                st.strat_var.trans_type, st.strat_var.order_type)

\* Put leg of a tick at price p: whether the leg enters.
pe_crossed(st, p) == st.nifty_pe_last_value - p >= st.strat_var.pe_gap

\* Call leg of a tick at price p: whether the leg enters.
ce_crossed(st, p) == p - st.nifty_ce_last_value >= st.strat_var.ce_gap

\* The put leg of on_ticks_update on [st, b] (strategy and broker).
handle_pe_trade(sb, p) ==
    IF pe_crossed(sb.st, p)
    THEN [st |-> [sb.st EXCEPT !.nifty_pe_last_value = p],
          b |-> strategy_place_order(sb.st, sb.b,
                    find_nifty_symbol_from_gap("PE", p,
                        sb.st.strat_var.pe_symbol_gap).tradingsymbol,
                    sb.st.strat_var.pe_quantity)]
    ELSE sb

\* The call leg of on_ticks_update on [st, b].
handle_ce_trade(sb, p) ==
    IF ce_crossed(sb.st, p)
    THEN [st |-> [sb.st EXCEPT !.nifty_ce_last_value = p],
          b |-> strategy_place_order(sb.st, sb.b,
                    find_nifty_symbol_from_gap("CE", p,
                        sb.st.strat_var.ce_symbol_gap).tradingsymbol,
                    sb.st.strat_var.ce_quantity)]
    ELSE sb

\* on_ticks_update(ticks) with ticks['last_price'] = p.
on_ticks_update(sb, p) == handle_ce_trade(handle_pe_trade(sb, p), p)

\* An AttributeError for a strat_var_<key> attribute that was never set.
AttributeError(key) == <<[type |-> "AttributeError", key |-> key]>>

\* What __init__ raises on config: line 47 reads strat_var_symbol_initials.
init_raises(config) ==
    IF "symbol_initials" \notin DOMAIN config
    THEN AttributeError("symbol_initials") ELSE <<>>

\* What _place_order raises: lines 108-109 read strat_var_trans_type and
\* strat_var_order_type before the broker is called.
strategy_place_order_raises(st) ==
    IF "trans_type" \notin DOMAIN st.strat_var THEN AttributeError("trans_type")
    ELSE IF "order_type" \notin DOMAIN st.strat_var
    THEN AttributeError("order_type") ELSE <<>>

\* The per-tick computation error of on_ticks_update: a non-positive price.
tick_error(p) == p <= 0

\* What the put leg raises at price p: the keys it reads, in order.
pe_trade_raises(st, p) ==
    IF "pe_gap" \notin DOMAIN st.strat_var THEN AttributeError("pe_gap")
    ELSE IF ~pe_crossed(st, p) THEN <<>>
    ELSE IF "pe_symbol_gap" \notin DOMAIN st.strat_var
    THEN AttributeError("pe_symbol_gap")
    ELSE IF "pe_quantity" \notin DOMAIN st.strat_var
    THEN AttributeError("pe_quantity")
    ELSE strategy_place_order_raises(st)

\* What the call leg raises at price p: the keys it reads, in order.
ce_trade_raises(st, p) ==
    IF "ce_gap" \notin DOMAIN st.strat_var THEN AttributeError("ce_gap")
    ELSE IF ~ce_crossed(st, p) THEN <<>>
    ELSE IF "ce_symbol_gap" \notin DOMAIN st.strat_var
    THEN AttributeError("ce_symbol_gap")
    ELSE IF "ce_quantity" \notin DOMAIN st.strat_var
    THEN AttributeError("ce_quantity")
    ELSE strategy_place_order_raises(st)

\* What on_ticks_update raises on [st, b] at price p, <<>> when it returns.
on_ticks_update_raises(sb, p) ==
    IF tick_error(p) THEN <<[type |-> "TickError", key |-> "last_price"]>>
    ELSE IF pe_trade_raises(sb.st, p) # <<>> THEN pe_trade_raises(sb.st, p)
    ELSE ce_trade_raises(handle_pe_trade(sb, p).st, p)

\* [st, b] as on_ticks_update leaves them when it raises: the put leg has
\* acted when it is the call leg that raises.
on_ticks_update_raised(sb, p) ==
    IF tick_error(p) \/ pe_trade_raises(sb.st, p) # <<>> THEN sb
    ELSE handle_pe_trade(sb, p)

(* ------------------------------ actions -------------------------------- *)

\* The feeds of n rows: row k is [index, price], index strictly increasing.
Feeds(n, prices) ==
    {[k \in 1..n |-> [index |-> 100 + k, price |-> f[k]]] :
        f \in [1..n -> prices]}

\* Backtester.__init__(strategy_class, data, initial_capital), with data of
\* at most longest rows, its prices drawn from prices, initial_capital drawn
\* from capitals, and the config of the strategy drawn from configs.
Backtester_init(prices, capitals, longest, configs) ==
    /\ data \in UNION {Feeds(n, prices) : n \in 0..longest}
    /\ initial_capital \in capitals
    /\ cash = initial_capital
    /\ positions = [s \in {} |-> [quantity |-> 0]]
    /\ portfolio_value = initial_capital
    /\ history = <<>>
    /\ strategy = <<>>
    /\ pc = "idle"
    /\ i = 0
    /\ order_log = <<>>
    /\ calls = 0
    /\ report = <<>>
    /\ lookup = <<>>
    /\ quote = <<>>
    /\ cfg \in configs
    /\ exception = <<>>

\* The broker as the next call finds it.
Broker ==
    [cash |-> cash, positions |-> positions, order_log |-> order_log,
     row |-> IF pc = "strategy" THEN i ELSE 0]

\* A place_order call by a caller of the broker other than the Survivor
\* strategy (a test, or the strategy class under test inside its tick).
PlaceOrderCall ==
    /\ pc \in {"idle", "strategy"}
    /\ calls < MaxOrders
    /\ calls' = calls + 1
    /\ \E symbol \in OrderSymbols, qp \in OrderInputs, tt \in TransactionTypes :
        LET b == place_order(Broker, symbol, qp[1], qp[2], tt, "MARKET")
        IN  /\ cash' = b.cash
            /\ positions' = b.positions
            /\ order_log' = b.order_log
    /\ UNCHANGED <<data, initial_capital, portfolio_value, history, strategy,
                   pc, i, report, lookup, quote,
                   cfg, exception>>

\* run(): the strategy is built, and the loop reaches its first row.
RunStart ==
    /\ pc = "idle"
    /\ init_raises(cfg) = <<>>
    /\ strategy' = <<initialize_state(cfg)>>
    /\ IF Len(data) = 0
       THEN pc' = "done" /\ i' = i
       ELSE pc' = "strategy" /\ i' = 1
    /\ UNCHANGED <<data, initial_capital, cash, positions, portfolio_value,
                   history, order_log, calls, report, lookup, quote,
                   cfg, exception>>

\* run() going from the tick handler straight to the history append.
OnTicksUpdate_skips_mark ==
    /\ pc = "strategy"
    /\ LET sb == on_ticks_update([st |-> strategy[1], b |-> Broker], data[i].price)
       IN  /\ strategy' = <<sb.st>>
           /\ cash' = sb.b.cash
           /\ positions' = sb.b.positions
           /\ order_log' = sb.b.order_log
    /\ pc' = "append"
    /\ UNCHANGED <<data, initial_capital, portfolio_value, history, i, calls,
                   report, lookup, quote, cfg, exception>>

\* run(), line 79: strategy.on_ticks_update(ticks).
OnTicksUpdate ==
    /\ pc = "strategy"
    /\ on_ticks_update_raises([st |-> strategy[1], b |-> Broker],
                              data[i].price) = <<>>
    /\ LET sb == on_ticks_update([st |-> strategy[1], b |-> Broker], data[i].price)
       IN  /\ strategy' = <<sb.st>>
           /\ cash' = sb.b.cash
           /\ positions' = sb.b.positions
           /\ order_log' = sb.b.order_log
    /\ pc' = "mark"
    /\ UNCHANGED <<data, initial_capital, portfolio_value, history, i, calls,
                   report, lookup, quote,
                   cfg, exception>>

\* The mark-to-market step writing its result to self.cash.
UpdatePortfolioValue_settles_cash ==
    /\ pc = "mark"
    /\ cash' = update_portfolio_value(cash, positions, data[i].price)
    /\ pc' = "append"
    /\ UNCHANGED <<data, initial_capital, portfolio_value, positions, history,
                   strategy, i, order_log, calls, report, lookup, quote, cfg,
                   exception>>

\* run() called again on the same Backtester: a new strategy is built (line
\* 75) and the loop starts over; run() assigns none of cash, positions,
\* portfolio_value or history before it.
RunAgain ==
    /\ pc = "done"
    /\ Len(data) > 0
    /\ Len(history) < MaxRuns * Len(data)
    /\ strategy' = <<initialize_state(cfg)>>
    /\ pc' = "strategy"
    /\ i' = 1
    /\ UNCHANGED <<data, initial_capital, cash, positions, portfolio_value,
                   history, order_log, calls, report, lookup, quote, cfg,
                   exception>>

\* run(), line 75: the strategy constructor raises, and run() with it.
RunStartRaises ==
    /\ pc = "idle"
    /\ init_raises(cfg) # <<>>
    /\ exception' = <<[raised |-> init_raises(cfg)[1], at |-> "construction",
                       row |-> 0]>>
    /\ pc' = "raised"
    /\ UNCHANGED <<data, initial_capital, cash, positions, portfolio_value,
                   history, strategy, i, order_log, calls, report, lookup,
                   quote, cfg>>

\* run(), line 79: on_ticks_update raises; nothing in run() catches it, so
\* run() ends there.
OnTicksUpdateRaises ==
    /\ pc = "strategy"
    /\ LET sb0 == [st |-> strategy[1], b |-> Broker]
           exc == on_ticks_update_raises(sb0, data[i].price)
           sb == on_ticks_update_raised(sb0, data[i].price)
       IN  /\ exc # <<>>
           /\ exception' = <<[raised |-> exc[1], at |-> "tick", row |-> i]>>
           /\ strategy' = <<sb.st>>
           /\ cash' = sb.b.cash
           /\ positions' = sb.b.positions
           /\ order_log' = sb.b.order_log
    /\ pc' = "raised"
    /\ UNCHANGED <<data, initial_capital, portfolio_value, history, i, calls,
                   report, lookup, quote, cfg>>

\* run(), line 80: self._update_portfolio_value(row['price']).
UpdatePortfolioValue ==
    /\ pc = "mark"
    /\ portfolio_value' = update_portfolio_value(cash, positions, data[i].price)
    /\ pc' = "append"
    /\ UNCHANGED <<data, initial_capital, cash, positions, history, strategy,
                   i, order_log, calls, report, lookup, quote,
                   cfg, exception>>

\* The entry run() appends for row r.
history_entry(row, pv) == [timestamp |-> row.index, portfolio_value |-> pv]

\* run() assigning the entry to the history instead of appending it.
HistoryAppend_overwrites ==
    /\ pc = "append"
    /\ history' = <<history_entry(data[i], portfolio_value)>>
    /\ IF i < Len(data)
       THEN pc' = "strategy" /\ i' = i + 1
       ELSE pc' = "done" /\ i' = i
    /\ UNCHANGED <<data, initial_capital, cash, positions, portfolio_value,
                   strategy, order_log, calls, report, lookup, quote,
                   cfg, exception>>

\* run(), lines 81-84: the history entry, then the next row or the end.
HistoryAppend ==
    /\ pc = "append"
    /\ history' = Append(history, history_entry(data[i], portfolio_value))
    /\ IF i < Len(data)
       THEN pc' = "strategy" /\ i' = i + 1
       ELSE pc' = "done" /\ i' = i
    /\ UNCHANGED <<data, initial_capital, cash, positions, portfolio_value,
                   strategy, order_log, calls, report, lookup, quote,
                   cfg, exception>>

\* generate_performance_report() after run().
GeneratePerformanceReport ==
    /\ pc = "done"
    /\ report = <<>>
    /\ report' = <<generate_performance_report(history, portfolio_value,
                                               initial_capital)>>
    /\ UNCHANGED <<data, initial_capital, cash, positions, portfolio_value,
                   history, strategy, pc, i, order_log, calls, lookup, quote,
                   cfg, exception>>

\* A call of strategy._find_nifty_symbol_from_gap from outside the tick
\* handler, at any point of a run.
FindSymbolCall ==
    /\ strategy # <<>>
    /\ Len(lookup) < MaxLookups
    /\ \E option_type \in LookupTypes, ltp \in LookupLtps, gap \in LookupGaps :
        lookup' = Append(lookup,
            [option_type |-> option_type, ltp |-> ltp, gap |-> gap,
             instrument |-> find_nifty_symbol_from_gap(option_type, ltp, gap)])
    /\ UNCHANGED <<data, initial_capital, cash, positions, portfolio_value,
                   history, strategy, pc, i, order_log, calls, report, quote,
                   cfg, exception>>

\* A get_quote call after the run.
GetQuoteCall ==
    /\ pc = "done"
    /\ \E symbol \in OrderSymbols : quote' = <<get_quote(symbol)>>
    /\ quote' # quote
    /\ UNCHANGED <<data, initial_capital, cash, positions, portfolio_value,
                   history, strategy, pc, i, order_log, calls, report, lookup,
                   cfg, exception>>

\* An _update_portfolio_value(current_price) call after the run.
UpdatePortfolioValueCall ==
    /\ pc = "done"
    /\ \E current_price \in MarkPrices :
        portfolio_value' = update_portfolio_value(cash, positions, current_price)
    /\ UNCHANGED <<data, initial_capital, cash, positions, history, strategy,
                   pc, i, order_log, calls, report, lookup, quote, cfg,
                   exception>>

Next ==
    \/ PlaceOrderCall
    \/ RunStart
    \/ OnTicksUpdate
    \/ UpdatePortfolioValue
    \/ HistoryAppend
    \/ GeneratePerformanceReport

Init ==
    Backtester_init(CallerFeedPrices, CallerCapitals, MaxTicks, {get_default_config})

\* The broker and a run, with any caller's orders before and inside the run.
Spec == Init /\ [][Next]_vars

NextRun ==
    \/ RunStart
    \/ OnTicksUpdate
    \/ UpdatePortfolioValue
    \/ HistoryAppend
    \/ GeneratePerformanceReport

InitRun ==
    Backtester_init(FeedPrices, InitialCapitals, MaxRunTicks, {get_default_config})

\* A run as gui.py makes it: the Survivor strategy is the only caller.
SpecRun == InitRun /\ [][NextRun]_vars

NextLookup ==
    \/ RunStart
    \/ OnTicksUpdate
    \/ UpdatePortfolioValue
    \/ HistoryAppend
    \/ FindSymbolCall

\* A run of the Survivor strategy during which _find_nifty_symbol_from_gap is
\* also called directly.
SpecLookup == Init /\ [][NextLookup]_vars

NextFrame ==
    \/ PlaceOrderCall
    \/ RunStart
    \/ OnTicksUpdate
    \/ UpdatePortfolioValue
    \/ HistoryAppend
    \/ GeneratePerformanceReport
    \/ GetQuoteCall
    \/ UpdatePortfolioValueCall

InitFrame ==
    Backtester_init(CallerFeedPrices, CallerCapitals, MaxFrameTicks,
                    {get_default_config})

\* The broker and a run with any caller's orders, quotes and marks.
SpecFrame == InitFrame /\ [][NextFrame]_vars

NextRerun ==
    \/ RunStart
    \/ RunAgain
    \/ OnTicksUpdate
    \/ UpdatePortfolioValue
    \/ HistoryAppend

\* Runs of the Survivor strategy, one after the other on one Backtester.
SpecRerun == InitRun /\ [][NextRerun]_vars

NextError ==
    \/ RunStart
    \/ RunStartRaises
    \/ OnTicksUpdate
    \/ OnTicksUpdateRaises
    \/ UpdatePortfolioValue
    \/ HistoryAppend

\* The config without one of its keys.
Without(key) ==
    [k \in DOMAIN get_default_config \ {key} |-> get_default_config[k]]

InitError ==
    Backtester_init(ErrorFeedPrices, CallerCapitals, MaxRunTicks,
                    {get_default_config} \cup {Without(k) : k \in MissingKeys})

\* A run of the Survivor strategy over feeds and configs that make the
\* constructor or the tick handler raise.
SpecError == InitError /\ [][NextError]_vars

(* ------------------------------ properties ----------------------------- *)

\* The quantity held in symbol: that of its entry, 0 when it has none.
Qty(pos, symbol) == IF symbol \in DOMAIN pos THEN pos[symbol].quantity ELSE 0

\* The cash and positions place_order call k left behind: those the next
\* call found, or the present ones after the last call.
After(k) ==
    IF k < Len(order_log)
    THEN [cash |-> order_log[k + 1].cash_before,
          positions |-> order_log[k + 1].positions_before]
    ELSE [cash |-> cash, positions |-> positions]

WellFormed(o) == o.quantity > 0 /\ o.price > 0

RECURSIVE MarkedSum(_, _, _)
\* Sum over the symbols in keys of quantity times price.
MarkedSum(pos, keys, price) ==
    IF keys = {} THEN 0
    ELSE LET s == CHOOSE x \in keys : TRUE
         IN  MarkedSum(pos, keys \ {s}, price) + price * pos[s].quantity

\* C1: after every mark-to-market call of a run (the driver stands between
\* _update_portfolio_value and the history append), portfolio_value is
\* exactly cash plus the sum over all positions of quantity times the price
\* the call marked with, whatever orders came before.
C1_PortfolioValueIsCashPlusMarkedPositions ==
    pc = "append" =>
        portfolio_value = cash + MarkedSum(positions, DOMAIN positions, data[i].price)

\* C1 witness: the second tick is marked with two non-flat positions.
C1_Witness ==
    /\ pc = "append" /\ i = 2
    /\ Cardinality(DOMAIN positions) = 2
    /\ \A s \in DOMAIN positions : positions[s].quantity # 0
    /\ portfolio_value # cash

\* C2: a place_order call with quantity q > 0 and price p > 0 changes cash
\* by -q*p for BUY and +q*p for SELL and the quantity of its symbol by +q
\* for BUY and -q for SELL; the symbol has an entry from then on, and no
\* entry is ever removed, also when its quantity is back at 0.
C2_PlaceOrderEffect ==
    \A k \in DOMAIN order_log :
        LET o == order_log[k]
            sign == IF o.transaction_type = "BUY" THEN 1 ELSE 0 - 1
        IN  /\ WellFormed(o) =>
                /\ After(k).cash = o.cash_before - sign * o.quantity * o.price
                /\ Qty(After(k).positions, o.symbol)
                     = Qty(o.positions_before, o.symbol) + sign * o.quantity
            /\ o.symbol \in DOMAIN After(k).positions
            /\ o.symbol \in DOMAIN positions
            /\ DOMAIN o.positions_before \subseteq DOMAIN After(k).positions
            /\ DOMAIN o.positions_before \subseteq DOMAIN positions

\* C2 witness: two well-formed orders, a SELL and a BUY, after which the
\* symbol is flat and still has its entry.
C2_Witness ==
    /\ Len(order_log) = 2
    /\ \A k \in DOMAIN order_log : WellFormed(order_log[k])
    /\ {order_log[k].transaction_type : k \in DOMAIN order_log} = {"BUY", "SELL"}
    /\ \E s \in DOMAIN positions : positions[s].quantity = 0

\* Calls k and k+1 are a SELL then a BUY of the same quantity at the same
\* price on the same symbol.
RoundTrip(k) ==
    /\ k + 1 \in DOMAIN order_log
    /\ order_log[k].transaction_type = "SELL"
    /\ order_log[k + 1].transaction_type = "BUY"
    /\ order_log[k].symbol = order_log[k + 1].symbol
    /\ order_log[k].quantity = order_log[k + 1].quantity
    /\ order_log[k].price = order_log[k + 1].price

\* C3: a SELL followed by a BUY of the same quantity at the same price on
\* the same symbol returns cash and the quantity of that symbol to what they
\* were before the SELL and leaves every other symbol's position as it was.
C3_RoundTripLaw ==
    \A k \in DOMAIN order_log :
        RoundTrip(k) =>
            LET o == order_log[k]
                a == After(k + 1)
            IN  /\ a.cash = o.cash_before
                /\ Qty(a.positions, o.symbol) = Qty(o.positions_before, o.symbol)
                /\ DOMAIN a.positions \ {o.symbol}
                     = DOMAIN o.positions_before \ {o.symbol}
                /\ \A t \in DOMAIN a.positions \ {o.symbol} :
                     a.positions[t] = o.positions_before[t]

\* C3 witness: a round trip made on a broker that already held a position in
\* the symbol and another one, with cash away from the initial capital.
C3_Witness ==
    \E k \in DOMAIN order_log :
        /\ RoundTrip(k)
        /\ WellFormed(order_log[k])
        /\ order_log[k].cash_before # initial_capital
        /\ Qty(order_log[k].positions_before, order_log[k].symbol) # 0

\* C4: when run finishes the history has one entry per row of the feed, in
\* feed order, entry k with the timestamp of row k; and no step changes or
\* removes an entry already appended.
C4_HistoryOnePerTick ==
    /\ [](pc = "done" =>
            /\ Len(history) = Len(data)
            /\ \A k \in DOMAIN history : history[k].timestamp = data[k].index)
    /\ [][/\ Len(history') >= Len(history)
          /\ \A k \in DOMAIN history : history'[k] = history[k]]_vars

\* C4 witness: a run over the longest feed has finished.
C4_Witness == pc = "done" /\ Len(data) = MaxTicks /\ Len(history) = MaxTicks

\* C5: on an empty feed run leaves the history empty, and the report made
\* from it is the "no data" outcome (None), with no final value and no
\* total return printed.
C5_EmptyFeedNoData ==
    (pc = "done" /\ Len(data) = 0) =>
        /\ history = <<>>
        /\ report # <<>> => (report[1].returns = "None" /\ report[1].printed = <<>>)

\* C5 witness: the report was made after a run over an empty feed.
C5_Witness == pc = "done" /\ Len(data) = 0 /\ report # <<>>

\* C6 (the statement of the claim; the code violates it): with initial
\* capital 100000 and the single tick 24500, during which one SELL of 50 at
\* price 20 is placed, the run ends with cash 101000, quantity -50 in the
\* sold symbol, and the portfolio value 100000 for that tick.
C6_FillIsValueNeutral ==
    ( /\ pc = "done"
      /\ initial_capital = 100000
      /\ Len(data) = 1 /\ data[1].price = 24500
      /\ Len(order_log) = 1
      /\ order_log[1].transaction_type = "SELL"
      /\ order_log[1].quantity = 50 /\ order_log[1].price = 20
      /\ order_log[1].symbol = "NIFTY-CE-24525"
      /\ order_log[1].row = 1 )
    => /\ cash = 101000
       /\ Qty(positions, "NIFTY-CE-24525") = 0 - 50
       /\ history[1].portfolio_value = 100000
       /\ portfolio_value = 100000

\* No row of the feed moves a leg's delta, measured from the starting
\* reference, up to its gap.
NoThresholdCrossed ==
    \A k \in DOMAIN data :
        /\ StartReference - data[k].price < get_default_config.pe_gap
        /\ data[k].price - StartReference < get_default_config.ce_gap

\* C7: in a run of the Survivor strategy whose feed crosses no threshold, no
\* order is placed, cash and the position book keep their initial values,
\* and every history entry's portfolio_value is the initial capital.
C7_NoCrossingNoOrders ==
    NoThresholdCrossed =>
        /\ order_log = <<>>
        /\ cash = initial_capital
        /\ DOMAIN positions = {}
        /\ portfolio_value = initial_capital
        /\ \A k \in DOMAIN history : history[k].portfolio_value = initial_capital

\* C7 witness: a finished run of three ticks at three prices, none of them
\* crossing a threshold.
C7_Witness ==
    /\ pc = "done" /\ Len(history) = 3 /\ NoThresholdCrossed
    /\ Cardinality({data[k].price : k \in DOMAIN data}) = 3

C9_MalformedOrderDropped ==
    \A k \in DOMAIN order_log :
        ~WellFormed(order_log[k]) =>
            /\ After(k).cash = order_log[k].cash_before
            /\ After(k).positions = order_log[k].positions_before

\* C10 (the original statement; the code violates it): of two place_order
\* calls the later returns a strictly larger identifier.
C10_OrderIdsStrictlyIncreasing ==
    \A j, k \in DOMAIN order_log :
        j < k => order_log[j].order_id < order_log[k].order_id

\* C10 as amended: every place_order call returns the same identifier, 1, so
\* a later call never returns a smaller identifier, and never a larger one.
C10_OrderIdsConstant ==
    \A j, k \in DOMAIN order_log :
        /\ order_log[k].order_id = 1
        /\ j < k => order_log[j].order_id = order_log[k].order_id

\* C10 witness: two well-formed orders have been placed.
C10_Witness ==
    /\ Len(order_log) >= 2
    /\ \A k \in DOMAIN order_log : WellFormed(order_log[k])

\* C11: cash and the position book change only in a place_order call: a
\* step of mark-to-market, of the history append, of get_quote or of
\* generate_performance_report leaves cash and every position as they were.
C11_OnlyOrdersMoveCashAndPositions ==
    [][ /\ (cash' # cash \/ positions' # positions)
            => Len(order_log') > Len(order_log)
        /\ ( \/ portfolio_value' # portfolio_value
             \/ history' # history
             \/ quote' # quote
             \/ report' # report
             \/ pc \in {"mark", "append"} )
            => (cash' = cash /\ positions' = positions) ]_vars

\* C11 witness: a tick was marked and appended, a quote and a report made,
\* on a broker holding a position, and the value was marked again directly.
C11_Witness ==
    /\ Len(history) = 1 /\ quote # <<>> /\ report # <<>>
    /\ cash # initial_capital
    /\ \E s \in DOMAIN positions : positions[s].quantity # 0
    /\ portfolio_value # history[1].portfolio_value

\* run() is over: it returned, or an exception ended it.
RunOver == pc \in {"done", "raised"}

\* C12 (the statement of the claim; the code violates it): an error of the
\* tick handler on one tick never ends the run: when run() is over, every
\* row of the feed has been marked and has its history entry.
C12_TickErrorKeepsRunGoing ==
    (RunOver /\ cfg = get_default_config) => Len(history) = Len(data)

\* C13 (the statement of the claim; the code violates it): a config that
\* lacks a required key is rejected when the strategy is constructed: once
\* run() is past the constructor, the config is complete or the constructor
\* has raised, and no exception for a missing key is raised during a tick.
C13_MissingKeyRejectedAtConstruction ==
    /\ (cfg # get_default_config /\ pc # "idle")
        => (exception # <<>> /\ exception[1].at = "construction")
    /\ (exception # <<>> /\ exception[1].raised.type = "AttributeError")
        => exception[1].at = "construction"

\* What run() leaves on a Backtester built from feed d: rows k.. of the feed
\* applied to the strategy and broker sb and the history hist.
RECURSIVE run_rows(_, _, _, _)
run_rows(d, k, sb, hist) ==
    IF k > Len(d)
    THEN [cash |-> sb.b.cash, positions |-> sb.b.positions, history |-> hist]
    ELSE LET after == on_ticks_update(
                          [st |-> sb.st,
                           b |-> [cash |-> sb.b.cash,
                                  positions |-> sb.b.positions,
                                  order_log |-> sb.b.order_log, row |-> k]],
                          d[k].price)
             pv == update_portfolio_value(after.b.cash, after.b.positions,
                                          d[k].price)
         IN  run_rows(d, k + 1, after, Append(hist, history_entry(d[k], pv)))

\* The history, cash and positions of a run of feed d from capital on a
\* Backtester of its own.
run_alone(d, capital) ==
    run_rows(d, 1,
             [st |-> initialize_state(get_default_config),
              b |-> [cash |-> capital,
                     positions |-> [s \in {} |-> [quantity |-> 0]],
                     order_log |-> <<>>]],
             <<>>)

\* C14 (the statement of the claim; the code violates it): the history, cash
\* and positions a run ends with are those its own feed and initial capital
\* give on a Backtester of its own, whatever ran before on this one.
C14_RunsShareNoState ==
    pc = "done" =>
        [cash |-> cash, positions |-> positions, history |-> history]
            = run_alone(data, initial_capital)

\* The cash and positions after the last place_order call made at or before
\* row k of the feed (calls made before run() have row 0).
BookAt(k) ==
    LET n == Cardinality({m \in DOMAIN order_log : order_log[m].row <= k})
    IN  IF n = 0
        THEN [cash |-> initial_capital,
              positions |-> [s \in {} |-> [quantity |-> 0]]]
        ELSE After(n)

\* C15: run() takes every tick through (1) the tick handler, which alone may
\* place orders, (2) the mark-to-market at the tick's price, (3) the history
\* append, and only then moves to the next tick; so every history entry is
\* the book after all orders placed at or before its own tick, marked at its
\* tick's price, and holds no order of a later tick.
C15_TickStepsInOrder ==
    /\ [](\A k \in DOMAIN history :
            history[k].portfolio_value
                = BookAt(k).cash
                  + MarkedSum(BookAt(k).positions, DOMAIN BookAt(k).positions,
                              data[k].price))
    /\ [](\A m \in DOMAIN order_log : \A n \in DOMAIN order_log :
            m <= n => order_log[m].row <= order_log[n].row)
    /\ [][ /\ (pc = "strategy" /\ pc' # pc)
                => (pc' = "mark" /\ i' = i /\ history' = history)
           /\ (pc = "mark" /\ pc' # pc)
                => /\ pc' = "append" /\ i' = i /\ history' = history
                   /\ order_log' = order_log
                   /\ portfolio_value'
                        = cash + MarkedSum(positions, DOMAIN positions,
                                           data[i].price)
           /\ (pc = "append" /\ pc' # pc)
                => /\ Len(history') = i
                   /\ history'[i].timestamp = data[i].index
                   /\ order_log' = order_log
                   /\ IF i < Len(data) THEN pc' = "strategy" /\ i' = i + 1
                                       ELSE pc' = "done"
           /\ Len(order_log') > Len(order_log)
                => /\ pc \in {"idle", "strategy"}
                   /\ order_log'[Len(order_log')].row
                        = (IF pc = "strategy" THEN i ELSE 0) ]_vars

\* C15 witness: a run of two ticks has finished with an order placed in each
\* tick, and the two history entries differ.
C15_Witness ==
    /\ pc = "done" /\ Len(history) = 2
    /\ \E m \in DOMAIN order_log : order_log[m].row = 1
    /\ \E m \in DOMAIN order_log : order_log[m].row = 2
    /\ history[1].portfolio_value # history[2].portfolio_value

\* Both legs of strategy st are in their initial state.
BothLegsInitial(st) ==
    /\ st.pe_reset_gap_flag = 0
    /\ st.ce_reset_gap_flag = 0
    /\ st.nifty_pe_last_value = 24500
    /\ st.nifty_ce_last_value = 24500

\* C16: between the construction of the strategy and the first tick both
\* reset flags are 0 and both references are the starting reference 24500,
\* and the construction places no order: it leaves the order log, the cash
\* and the positions of the broker as they were.
C16_ConstructedInitial ==
    /\ []((pc = "strategy" /\ i = 1) => BothLegsInitial(strategy[1]))
    /\ [][ strategy' # strategy /\ pc # "strategy"
            => /\ BothLegsInitial(strategy'[1])
               /\ order_log' = order_log
               /\ cash' = cash
               /\ positions' = positions ]_vars

\* C16 witness: a strategy has just been built on a broker that holds the
\* orders of an earlier run, and its first tick is still to come.
C16_Witness ==
    /\ pc = "strategy" /\ i = 1
    /\ order_log # <<>>
    /\ BothLegsInitial(strategy[1])

\* C17: when run() has finished on a non-empty feed, portfolio_value is the
\* portfolio_value of the last history entry, and the report made then shows
\* that entry's value as the final value, the total return computed from it
\* and initial_capital, and the history as its rows.
C17_ReportAgreesWithHistory ==
    (pc = "done" /\ Len(data) > 0) =>
        LET last == history[Len(history)].portfolio_value
        IN  /\ portfolio_value = last
            /\ report # <<>> =>
                /\ report[1].rows = history
                /\ report[1].printed[1].final_portfolio_value = last
                /\ report[1].printed[1].total_return_num
                     = (last - initial_capital) * 100
                /\ report[1].printed[1].total_return_den = initial_capital

\* C17 witness: the report was made after a run of two ticks whose history
\* entries differ from each other and from the initial capital.
C17_Witness ==
    /\ pc = "done" /\ report # <<>> /\ Len(history) = 2
    /\ history[1].portfolio_value # history[2].portfolio_value
    /\ history[2].portfolio_value # initial_capital

\* C18: in every state of a run of the backtest strategy, whose orders all
\* go through _place_order at fill price 20, cash plus 20 times the sum of
\* all position quantities is the initial capital.
C18_FixedPriceConservation ==
    cash + 20 * MarkedSum(positions, DOMAIN positions, 1) = initial_capital

\* C18 witness: a run has finished with three orders filled, on two symbols
\* or more.
C18_Witness ==
    /\ pc = "done" /\ Len(order_log) = 3
    /\ Cardinality(DOMAIN positions) >= 2
    /\ cash # initial_capital

====
